---- MODULE Spec2Model ----
(***************************************************************************)
(* The ingest -> bronze -> silver pipeline of fitnessllm-dataplatform for  *)
(* one user of the STRAVA data source: the entry points of Startup         *)
(* (task_handler.py), the bronze engine (bronze_etl_interface.py) with its *)
(* selector query (queries.py), the object store holding the raw           *)
(* artifacts and the warehouse tables (bronze, metrics, silver).           *)
(***************************************************************************)
EXTENDS Integers, Sequences, FiniteSets, TLC

\* ---- bounds ----
MaxActivity == 2        \* the provider's activities are 1..MaxActivity
MaxSamples == 1         \* samples held by one series artifact
MaxClock == 4           \* the value datetime.now() can reach
MaxFaults == 2          \* failed warehouse jobs of the bronze engine
MaxUsers == 3           \* documents in the users collection
MaxTemplates == 2       \* template files of the silver engine
MaxSilverRuns == 2
MaxResolves == 2        \* calls of get_schema_path in one behaviour
MaxWorkers == 2         \* largest value of WORKER
MaxIngestRuns == 3      \* ingest and bronze runs of the object-store model
MaxVersions == 2        \* versions of the data the provider answers with
MaxCalls == 2           \* entry-point calls on one Startup instance
MaxTokenSteps == 2      \* calls of the token functions in one behaviour
CpuCount == 2           \* mp.cpu_count()      \* calls of the silver engine

ActivityIds == 1..MaxActivity
IdSeq == [i \in 1..MaxActivity |-> i]

\* ---- program constants ----
Streams == {"activity", "heartrate"}         \* the StravaStreams members modelled
StreamOrder == <<"activity", "heartrate">>   \* order in which iterdir() lists them
SummaryStreams == {"activity"}               \* streams loaded with json_normalize
Envs == {"dev", "prod"}                      \* values of environ ENV
AthleteId == "42"                            \* athlete.id of the user's document
Calls == {"ingest", "bronze_etl", "silver_etl", "full_etl"}

VARIABLES
  ENV,          \* ETLInterface.ENV
  userDoc,      \* users/{uid}/stream/strava: "absent", "noAthlete" or "ok"
  strayDir,     \* a directory that names no StravaStreams member is stored
  provider,     \* what the provider returns: provider[stream][activity_id]
  faults,       \* warehouse jobs of the bronze engine that failed so far
  storage,      \* raw artifacts: storage[stream][activity_id]
  bronze,       \* rows of the tables {ENV}_bronze_strava.{stream}
  metrics,      \* rows of all metrics tables, each row naming its table
  silver,       \* activity ids of the athlete's rows in the silver table
  clock,        \* datetime.now(): later at every call and every load job
  call,         \* the entry point that was called last
  data_streams, \* its data_streams argument ({} is None)
  pc,           \* position of the call
  result,       \* "none", "running", "returned" or "raised"
  raisedIn,     \* the stage whose exception left the call, or "none"
  stages,       \* stages the call has started, in order
  streamsLeft,  \* load_json_into_bq: streams still to process
  loaded,       \* convert_stream_json_to_dataframe: the metrics list
  timestamp,    \* upsert_to_bigquery: timestamp
  jobState,     \* upsert_to_bigquery: outcome of the bronze load job
  run,          \* the bronze run (load_json_into_bq) of this call
  prev,         \* the bronze run before it, while it can be compared
  users,        \* process_all_users: the listed user documents
  batchPc,      \* process_all_users: position
  userIndex,    \* process_all_users: index of the user the loop is at
  processed,    \* indexes of the users process_user was called for, in order
  failed,       \* indexes of the users whose process_user raised
  batchResult,  \* process_all_users: "none", "running", "returned", "raised"
  list_of_queries, \* silver task_handler: the template files, in listing order
  silverTables, \* rows of the silver target tables, one table per template
  silverPc,     \* silver task_handler: position
  templateIndex, \* silver task_handler: index of the template the loop is at
  executed,     \* statements the run has sent to the warehouse
  silverClean,  \* every job of the run so far reported DONE
  silverSnap,   \* the tables as the run before left them, when it was clean
  silverResult, \* silver task_handler: "none", "running", "returned", "raised"
  silverRuns,   \* calls of the silver task_handler so far
  schemaCalls,  \* get_schema_path: the calls made, each with what it returned
  WORKER,       \* the WORKER environment variable
  SAMPLE,       \* the SAMPLE environment variable
  poolStream,   \* convert_stream_json_to_dataframe: the stream
  dispatched,   \* Parallel: number of candidate files handed to a worker
  running,      \* Parallel: the candidate each worker is loading (0: none)
  slots,        \* Parallel: what the load of each candidate gave
  finished,     \* Parallel: the candidates in the order their loads ended
  poolPc,       \* convert_stream_json_to_dataframe: position
  poolResult,   \* convert_stream_json_to_dataframe: the list named result
  usersColl,    \* Firestore: the uids that have a document in users
  streamDocs,   \* Firestore: users/{uid}/stream/strava of each uid
  request,      \* token_refresh: the request handled last
  response,     \* token_refresh: the status answered last
  refreshCalled, \* token_refresh: the provider refresh was invoked
  tokenOp,      \* the function called last
  tokenSteps,   \* calls so far
  pairTables,   \* two athletes: the warehouse tables both runs write
  pairAlone,    \* two athletes: per athlete, the tables of its run taken alone
  pairRuns,     \* two athletes: per athlete, the position and locals of its run
  objects,      \* object store: the object at each (stream, activity id) path
  bronzeActivity, \* object store model: the bronze activity rows
  ingestOp,     \* object store model: the stage that ran last
  ingestRuns,   \* object store model: stage runs so far
  initialized,  \* Startup: self.initialized
  firebase,     \* Startup: the uid self.firebase is bound to, if it is set
  calls         \* Startup: the entry-point calls made on the instance

\* the variables of the pipeline of one user
pipeVars == <<ENV, userDoc, strayDir, provider, faults, storage, bronze, metrics,
              silver, clock, call, data_streams, pc, result, raisedIn, stages,
              streamsLeft,
              loaded, timestamp, jobState, run, prev>>

\* the variables of BatchHandler
batchVars == <<users, batchPc, userIndex, processed, failed, batchResult>>

\* the variables of the silver engine
silverVars == <<list_of_queries, silverTables, silverPc, templateIndex, executed,
                silverClean, silverSnap, silverResult, silverRuns>>

\* the variables of the schema registry
schemaVars == <<schemaCalls>>

\* the variables of the loading worker pool
poolVars == <<WORKER, SAMPLE, poolStream, dispatched, running, slots, finished, poolPc,
              poolResult>>

\* the variables of the token_refresh cloud function
tokenVars == <<usersColl, streamDocs, request, response, refreshCalled, tokenOp,
               tokenSteps>>

\* the variables of the remaining components
\* the variables of two pipeline runs sharing one warehouse
pairVars == <<pairTables, pairAlone, pairRuns>>

\* the variables of the object store the ingest stage writes
ingestVars == <<objects, bronzeActivity, ingestOp, ingestRuns>>

\* the variables of one Startup instance
startupVars == <<initialized, firebase, calls>>

restVars == <<tokenVars, pairVars, ingestVars, startupVars>>

\* the variables the pipeline of one user leaves alone
otherVars == <<batchVars, silverVars, schemaVars, poolVars, restVars>>

vars == <<pipeVars, otherVars>>

\* ---- raw artifacts ----
NoFile == [present |-> FALSE, ok |-> FALSE, rows |-> 0]

\* what the provider can return for one activity of a stream: a summary
\* document, or a series document that is malformed, empty or holds
\* MaxSamples samples
Contents(s) ==
  IF s \in SummaryStreams
  THEN {[present |-> TRUE, ok |-> TRUE, rows |-> 1]}
  ELSE {[present |-> TRUE, ok |-> FALSE, rows |-> 0]}
       \cup {[present |-> TRUE, ok |-> TRUE, rows |-> n] : n \in {0, MaxSamples}}

\* iterdir() of the stream's directory, in listing order
ListDir(store, s) == SelectSeq(IdSeq, LAMBDA i : store[s][i].present)

\* the stream directories stored for the athlete
StoredStreams(store) ==
  SelectSeq(StreamOrder, LAMBDA s : \E i \in ActivityIds : store[s][i].present)

\* ---- warehouse tables ----
SelectorTable(env) == <<env, "bronze_strava", "metrics">>
SuccessDestination(env) == <<env, "metrics", "metrics">>
FailureDestination == <<"dev", "metrics", "metrics">>

\* the activity ids the selector query returns
create_activities_query(rows, env, athlete_id, data_stream) ==
  {m.activity_id : m \in {r \in rows : /\ r.table = SelectorTable(env)
                                       /\ r.athlete_id = athlete_id
                                       /\ r.data_stream = data_stream
                                       /\ r.status = "SUCCESS"}}

NoSample == 0 - 1       \* SAMPLE is not set

\* itertools.islice(iterdir(), int(sample)) when SAMPLE is set, then the
\* files whose activity id the selector did not return
SampledList(list, done, sample) ==
  LET module_strava_json_list ==
        IF sample # NoSample /\ sample < Len(list) THEN SubSeq(list, 1, sample)
        ELSE list
  IN SelectSeq(module_strava_json_list, LAMBDA i : i \notin done)

\* the candidate files left after sampling and filtering
FilteredList(store, rows, env, s, sample) ==
  SampledList(ListDir(store, s),
              create_activities_query(rows, env, AthleteId, s), sample)

\* load_json_into_dataframe: raises on a malformed artifact
LoadRaises(store, s, i) == ~store[s][i].ok

\* pd.json_normalize(data_dict): one row, named by index 1
json_normalize == <<1>>

\* a data list that is None giving a frame of one empty row
process_other_json_RowForNone(samples) ==
  IF samples = 0 THEN <<1>> ELSE [j \in 1..samples |-> j]

\* process_other_json: one row per element of data_dict["data"], none when
\* it is None or empty; the frame is the sequence of its index column
process_other_json(samples) == [j \in 1..samples |-> j]

\* execute_etl_func: the stream's column transformations, row for row
execute_etl_func(df) == df

\* load_json_into_dataframe: the frame and Metrics(record_count=df.shape[0])
load_json_into_dataframe(store, s, i) ==
  LET df == execute_etl_func(IF s \in SummaryStreams THEN json_normalize
                             ELSE process_other_json(store[s][i].rows))
  IN [activity_id |-> i, dataframe |-> df, record_count |-> Len(df)]

\* what load_json_into_dataframe gives for a summary artifact of activity i
SummaryLoad(i) == [activity_id |-> i, dataframe |-> json_normalize, record_count |-> 1]

\* pd.concat(dataframes) with metadata_insert_timestamp
DataframeRows(s, mlist, ts) ==
  UNION {{[data_stream |-> s, athlete_id |-> AthleteId,
           activity_id |-> mlist[k].activity_id,
           index |-> mlist[k].dataframe[j], ts |-> ts]
          : j \in DOMAIN mlist[k].dataframe} : k \in DOMAIN mlist}

\* insert_metrics: the rows appended to destination
MetricsRows(destination, s, mlist, ts, status) ==
  {[table |-> destination, athlete_id |-> AthleteId, data_stream |-> s,
    activity_id |-> mlist[k].activity_id,
    record_count |-> mlist[k].record_count,
    status |-> status, bq_insert_timestamp |-> ts] : k \in DOMAIN mlist}

\* a load that replaces the rows of the destination table
insert_metrics_WRITE_TRUNCATE(table, new) ==
  {m \in table : m.table \notin {n.table : n \in new}} \cup new

\* insert_metrics: load_table_from_dataframe with WRITE_APPEND
insert_metrics(table, new) == table \cup new

\* the state check dropped: any job whose result() returns counts as written
WriteSucceeded_NoStateCheck(state) == state # "RAISED"

\* upsert_to_bigquery: if result.state == "DONE"
WriteSucceeded(state) == state = "DONE"

\* upsert_to_bigquery: the status passed to insert_metrics in each branch
DoneStatus == "SUCCESS"

\* the except branch passing the status of the try branch
ExceptStatus_Success == "SUCCESS"

ExceptStatus == "FAILURE"

\* MAX(start_date) of the athlete's bronze activity rows (0 is NULL)
LatestActivity(rows) ==
  LET ids == {r.activity_id : r \in {b \in rows : b.data_stream = "activity"}}
  IN IF ids = {} THEN 0 ELSE CHOOSE i \in ids : \A j \in ids : j <= i

\* ---- entry points ----
FirstStage(c) ==
  IF c = "bronze_etl" THEN "bronze"
  ELSE IF c = "silver_etl" THEN "silver" ELSE "ingest"

\* full_etl: the position after `stage` has returned
full_etl(c, stage) ==
  IF c # "full_etl" THEN "done"
  ELSE IF stage = "ingest" THEN "bronze"
  ELSE IF stage = "bronze" THEN "silver" ELSE "done"

\* full_etl catching what ingest raises and going on
full_etl_raise_IngestCaught(c, stage) ==
  IF c = "full_etl" /\ stage = "ingest" THEN "bronze" ELSE "done"

\* full_etl: the position after `stage` has raised
full_etl_raise(c, stage) == "done"

StageReturns(stage) ==
  /\ pc' = full_etl(call, stage)
  /\ raisedIn' = raisedIn
  /\ result' = IF full_etl(call, stage) = "done" THEN "returned" ELSE "running"

StageRaises(stage) ==
  /\ pc' = full_etl_raise(call, stage)
  /\ raisedIn' = stage
  /\ result' = IF full_etl_raise(call, stage) = "done" THEN "raised" ELSE "running"

\* ---- the record kept for each bronze run ----
EmptyStorage == [s \in Streams |-> [i \in ActivityIds |-> NoFile]]

NewRun(allow, store) ==
  [started |-> TRUE, allow |-> allow, store |-> store, visited |-> {},
   attempted |-> {},
   malformed |-> {}, jobs |-> {}, stamps |-> {}, rowsAdded |-> 0,
   metricsAdded |-> 0, error |-> "none", ended |-> FALSE]

NoRun == [NewRun({}, EmptyStorage) EXCEPT !.started = FALSE]

\* a run that returned with every attempted file recorded as SUCCESS
Clean(r, rows) ==
  /\ r.ended
  /\ r.error = "none"
  /\ \A a \in r.attempted : \E m \in rows :
        /\ m.data_stream = a[1]
        /\ m.activity_id = a[2]
        /\ m.status = "SUCCESS"
        /\ m.bq_insert_timestamp \in r.stamps

\* prev: the allow-list of the run before, kept while that run was clean,
\* loaded a file, and no artifact has been stored since
NoPrev == [valid |-> FALSE, allow |-> {}]
Summary(r, rows) ==
  IF Clean(r, rows) /\ r.attempted # {}
  THEN [valid |-> TRUE, allow |-> r.allow] ELSE NoPrev

\* BatchHandler is not running
BatchOff ==
  /\ users = <<>>
  /\ batchPc = "off"
  /\ userIndex = 0
  /\ processed = <<>>
  /\ failed = {}
  /\ batchResult = "none"

\* the silver target tables, empty
EmptyTables == [n \in 1..MaxTemplates |-> {}]

\* no table contents kept from a run before
NoSnap == [valid |-> FALSE, tables |-> EmptyTables]

\* the silver engine is not running
SilverOff ==
  /\ list_of_queries = <<>>
  /\ silverTables = EmptyTables
  /\ silverPc = "off"
  /\ templateIndex = 0
  /\ executed = {}
  /\ silverClean = TRUE
  /\ silverSnap = NoSnap
  /\ silverResult = "none"
  /\ silverRuns = 0

\* no call of get_schema_path yet
SchemaOff == schemaCalls = <<>>

NoWorker == 0           \* WORKER is not set

\* the list named result not assigned yet
NoResult == [raised |-> FALSE, list |-> <<>>]

\* the load of a candidate not ended yet
Pending == [state |-> "pending", activity_id |-> 0, record_count |-> 0]

\* no conversion under way
PoolIdle ==
  /\ WORKER = 1
  /\ poolStream = "activity"
  /\ dispatched = 0
  /\ running = <<>>
  /\ slots = <<>>
  /\ finished = <<>>
  /\ poolPc = "off"
  /\ poolResult = NoResult

\* no conversion under way, and SAMPLE not set
PoolOff == PoolIdle /\ SAMPLE = NoSample

\* a request that was never made
NoRequest == [method |-> "none", data_source |-> "", auth |-> "none", uid |-> ""]

\* no call of the token functions yet, and an empty Firestore
TokenOff ==
  /\ usersColl = {}
  /\ streamDocs = <<>>
  /\ request = NoRequest
  /\ response = 0
  /\ refreshCalled = FALSE
  /\ tokenOp = "none"
  /\ tokenSteps = 0

\* an empty warehouse
EmptyWarehouse == [bronze |-> {}, metrics |-> {}, silver |-> {}]

\* no pair of runs
PairOff ==
  /\ pairTables = EmptyWarehouse
  /\ pairAlone = <<>>
  /\ pairRuns = <<>>

\* the (stream, activity id) paths of the athlete in the bucket
Paths ==
  {<<"athlete_summary", 0>>} \cup (Streams \X ActivityIds)

\* no object stored at a path
Absent == [generation |-> 0, content |-> 0]

\* an empty bucket and no stage run
IngestOff ==
  /\ objects = [p \in Paths |-> Absent]
  /\ bronzeActivity = {}
  /\ ingestOp = "none"
  /\ ingestRuns = 0

\* an attribute that was never assigned
Unset == "unset"

\* Startup.__init__: a fresh instance, no call made
StartupOff ==
  /\ initialized = FALSE
  /\ firebase = Unset
  /\ calls = <<>>

RestOff == TokenOff /\ PairOff /\ IngestOff /\ StartupOff

TypeOK ==
  /\ ENV \in Envs
  /\ userDoc \in {"absent", "noAthlete", "ok"}
  /\ strayDir \in BOOLEAN
  /\ faults \in 0..MaxFaults
  /\ pc \in {"idle", "ingest", "bronze", "convert", "load", "metricsSuccess",
             "metricsFailure", "silver", "done"}
  /\ result \in {"none", "running", "returned", "raised"}
  /\ clock \in 0..MaxClock

InitPipeline ==
  /\ ENV \in Envs
  /\ userDoc \in {"absent", "noAthlete", "ok"}
  /\ strayDir \in BOOLEAN
  /\ provider \in [Streams -> [ActivityIds -> UNION {Contents(s) : s \in Streams}]]
  /\ \A s \in Streams, i \in ActivityIds : provider[s][i] \in Contents(s)
  /\ faults = 0
  /\ storage = EmptyStorage
  /\ bronze = {}
  /\ metrics = {}
  /\ silver = {}
  /\ clock = 0
  /\ call = "none"
  /\ data_streams = {}
  /\ pc = "idle"
  /\ result = "none"
  /\ raisedIn = "none"
  /\ stages = <<>>
  /\ streamsLeft = <<>>
  /\ loaded = <<>>
  /\ timestamp = 0
  /\ jobState = "none"
  /\ run = NoRun
  /\ prev = NoPrev

Init ==
  /\ InitPipeline
  /\ BatchOff
  /\ SilverOff
  /\ SchemaOff
  /\ PoolOff
  /\ RestOff

\* load_json_into_bq: the streams the allow-list keeps
Allowed(streams, allow) ==
  IF allow # {} THEN SelectSeq(streams, LAMBDA s : s \in allow) ELSE streams

\* the most load jobs a call can start: one for each stream it processes
MostLoads(c, allow) ==
  IF c = "bronze_etl" THEN Len(Allowed(StoredStreams(storage), allow))
  ELSE IF c = "full_etl" THEN Len(Allowed(StreamOrder, allow))
  ELSE 0

\* a caller (the CLI) calls one entry point of a Startup instance, at a later
\* time than the call before and while the clock leaves room for the load
\* jobs of the call
Invoke(c, allow) ==
  /\ pc = "idle"
  /\ clock + 1 + MostLoads(c, allow) <= MaxClock
  /\ clock' = clock + 1
  /\ c \in {"ingest", "silver_etl"} => allow = {}
  /\ call' = c
  /\ data_streams' = allow
  /\ pc' = FirstStage(c)
  /\ result' = "running"
  /\ raisedIn' = "none"
  /\ stages' = <<>>
  /\ UNCHANGED otherVars
  /\ UNCHANGED <<ENV, userDoc, strayDir, provider, faults, storage, bronze,
                 metrics, silver, streamsLeft, loaded, timestamp,
                 jobState, run, prev>>

\* Startup.ingest with StravaAPIInterface.get_all_activities: the activities
\* after the latest loaded one are fetched and stored in order; a failure of
\* the API leaves the artifacts written before it
Ingest ==
  /\ pc = "ingest"
  /\ stages' = Append(stages, "INGEST")
  /\ IF userDoc = "absent"
     THEN /\ StageRaises("ingest")
          /\ UNCHANGED <<storage, prev>>
     ELSE LET latest == LatestActivity(bronze) IN
          \E done \in latest..MaxActivity, partial \in BOOLEAN, raised \in BOOLEAN :
            /\ ~raised => (done = MaxActivity /\ ~partial)
            /\ partial => (raised /\ done < MaxActivity)
            /\ storage' =
                 [s \in Streams |-> [i \in ActivityIds |->
                    IF \/ i \in (latest + 1)..done
                       \/ (partial /\ i = done + 1 /\ s = "activity")
                    THEN provider[s][i] ELSE storage[s][i]]]
            /\ prev' = IF storage' = storage THEN prev ELSE NoPrev
            /\ IF raised THEN StageRaises("ingest") ELSE StageReturns("ingest")
  /\ UNCHANGED otherVars
  /\ UNCHANGED <<ENV, userDoc, strayDir, provider, faults, bronze, metrics,
                 silver, clock, call, data_streams, streamsLeft, loaded,
                 timestamp, jobState, run>>

\* the upsert called whatever the conversion returned
HasNewData_Always(dataframes) == TRUE

\* load_json_into_bq: if dataframes and metrics
HasNewData(dataframes) == dataframes # <<>>

\* load_json_into_bq: the loop goes on with the next stream, or returns
NextStream(rest, r) ==
  /\ streamsLeft' = rest
  /\ loaded' = <<>>
  /\ timestamp' = 0
  /\ jobState' = "none"
  /\ IF rest = <<>>
     THEN /\ StageReturns("bronze")
          /\ run' = ([r EXCEPT !.ended = TRUE])
     ELSE /\ pc' = "convert"
          /\ UNCHANGED <<result, raisedIn>>
          /\ run' = (r)

\* an exception leaves load_json_into_bq
BronzeAborts(r) ==
  /\ StageRaises("bronze")
  /\ streamsLeft' = <<>>
  /\ loaded' = <<>>
  /\ timestamp' = 0
  /\ jobState' = "none"
  /\ run' = ([r EXCEPT !.ended = TRUE])

\* Startup.bronze_etl up to the stream loop of load_json_into_bq
BronzeStart ==
  /\ pc = "bronze"
  /\ stages' = Append(stages, "BRONZE")
  /\ IF userDoc # "ok"
     THEN /\ StageRaises("bronze")
          /\ UNCHANGED <<streamsLeft, run>>
     ELSE IF strayDir
     THEN /\ StageRaises("bronze")
          /\ run' = ([NewRun(data_streams, storage) EXCEPT
                                     !.error = "KeyError", !.ended = TRUE])
          /\ UNCHANGED streamsLeft
     ELSE LET streams == Allowed(StoredStreams(storage), data_streams) IN
          /\ streamsLeft' = streams
          /\ IF streams = <<>>
             THEN /\ StageReturns("bronze")
                  /\ run' = ([NewRun(data_streams, storage) EXCEPT
                                             !.ended = TRUE])
             ELSE /\ pc' = "convert"
                  /\ UNCHANGED <<result, raisedIn>>
                  /\ run' = (NewRun(data_streams, storage))
  /\ UNCHANGED otherVars
  /\ UNCHANGED <<ENV, userDoc, strayDir, provider, faults, storage, bronze,
                 metrics, silver, clock, call, data_streams, loaded, timestamp,
                 jobState, prev>>

\* convert_stream_json_to_dataframe for the next stream of the loop
ConvertStream ==
  /\ pc = "convert"
  /\ LET s == Head(streamsLeft)
         files == FilteredList(storage, metrics, ENV, s, SAMPLE)
         keys == {<<s, files[k]>> : k \in DOMAIN files}
         bad == {<<s, files[k]>> : k \in {j \in DOMAIN files :
                                            LoadRaises(storage, s, files[j])}}
     IN IF ~HasNewData(files)
        THEN NextStream(Tail(streamsLeft), [run EXCEPT !.visited = @ \cup {s}])
        ELSE IF bad # {}
        THEN BronzeAborts([run EXCEPT !.visited = @ \cup {s},
                                         !.attempted = @ \cup keys,
                                         !.malformed = @ \cup bad,
                                         !.error = "LoadError"])
        ELSE /\ loaded' = [k \in DOMAIN files |->
                             load_json_into_dataframe(storage, s, files[k])]
             /\ pc' = "load"
             /\ run' = ([run EXCEPT !.visited = @ \cup {s},
                                      !.attempted = @ \cup keys])
             /\ UNCHANGED <<result, raisedIn, streamsLeft, timestamp, jobState>>
  /\ UNCHANGED otherVars
  /\ UNCHANGED <<ENV, userDoc, strayDir, provider, faults, storage, bronze,
                 metrics, silver, clock, call, data_streams, stages, prev>>

\* upsert_to_bigquery: the bronze load job
UpsertLoad ==
  /\ pc = "load"
  /\ clock' = clock + 1
  /\ timestamp' = clock + 1
  /\ \E state \in {"DONE", "PENDING", "RAISED"} :
       LET s == Head(streamsLeft)
           fault == IF state = "DONE" THEN 0 ELSE 1
           rows == IF state = "DONE"
                   THEN DataframeRows(s, loaded, clock + 1) ELSE {}
       IN /\ faults + fault <= MaxFaults
          /\ faults' = faults + fault
          /\ jobState' = state
          /\ bronze' = bronze \cup rows
          /\ pc' = IF WriteSucceeded(state) THEN "metricsSuccess"
                                             ELSE "metricsFailure"
          /\ run' = ([run EXCEPT
                 !.jobs = @ \cup {[stream |-> s, ts |-> clock + 1,
                                   state |-> state]},
                 !.stamps = @ \cup {clock + 1},
                 !.rowsAdded = @ + Cardinality(rows)])
  /\ UNCHANGED otherVars
  /\ UNCHANGED <<ENV, userDoc, strayDir, provider, storage, metrics, silver,
                 call, data_streams, result, raisedIn, stages, streamsLeft,
                 loaded, prev>>

\* upsert_to_bigquery: insert_metrics with Status.SUCCESS
InsertMetricsSuccess ==
  /\ pc = "metricsSuccess"
  /\ \E ok \in BOOLEAN :
       IF ok
       THEN /\ metrics' = insert_metrics(metrics,
                 MetricsRows(SuccessDestination(ENV), Head(streamsLeft),
                             loaded, timestamp, DoneStatus))
            /\ faults' = faults
            /\ NextStream(Tail(streamsLeft),
                          [run EXCEPT !.metricsAdded = @ + Len(loaded)])
       ELSE /\ faults < MaxFaults
            /\ faults' = faults + 1
            /\ pc' = "metricsFailure"
            /\ UNCHANGED <<metrics, result, raisedIn, streamsLeft, loaded,
                           timestamp, jobState, run>>
  /\ UNCHANGED otherVars
  /\ UNCHANGED <<ENV, userDoc, strayDir, provider, storage, bronze, silver,
                 clock, call, data_streams, stages, prev>>

\* upsert_to_bigquery: the except branch, insert_metrics with Status.FAILURE
InsertMetricsFailure ==
  /\ pc = "metricsFailure"
  /\ \E ok \in BOOLEAN :
       IF ok
       THEN /\ metrics' = insert_metrics(metrics,
                 MetricsRows(FailureDestination, Head(streamsLeft),
                             loaded, timestamp, ExceptStatus))
            /\ faults' = faults
            /\ NextStream(Tail(streamsLeft),
                          [run EXCEPT !.metricsAdded = @ + Len(loaded)])
       ELSE /\ faults < MaxFaults
            /\ faults' = faults + 1
            /\ BronzeAborts([run EXCEPT !.error = "MetricsError"])
            /\ UNCHANGED metrics
  /\ UNCHANGED otherVars
  /\ UNCHANGED <<ENV, userDoc, strayDir, provider, storage, bronze, silver,
                 clock, call, data_streams, stages, prev>>

\* Startup.silver_etl with SilverStravaETLInterface.task_handler
SilverEtl ==
  /\ pc = "silver"
  /\ stages' = Append(stages, "SILVER")
  /\ IF userDoc # "ok"
     THEN /\ StageRaises("silver")
          /\ UNCHANGED silver
     ELSE \E o \in {"ok", "deleteRaised", "insertRaised"} :
            /\ silver' = IF o = "deleteRaised" THEN silver
                         ELSE IF o = "insertRaised" THEN {}
                         ELSE {r.activity_id : r \in
                                 {b \in bronze : b.data_stream = "activity"}}
            /\ IF o = "ok" THEN StageReturns("silver")
                           ELSE StageRaises("silver")
  /\ UNCHANGED otherVars
  /\ UNCHANGED <<ENV, userDoc, strayDir, provider, faults, storage, bronze,
                 metrics, clock, call, data_streams, streamsLeft, loaded,
                 timestamp, jobState, run, prev>>

\* the call has returned to its caller or raised
Return ==
  /\ pc = "done"
  /\ pc' = "idle"
  /\ call' = "none"
  /\ data_streams' = {}
  /\ result' = "none"
  /\ raisedIn' = "none"
  /\ stages' = <<>>
  /\ prev' = IF run.started THEN Summary(run, metrics) ELSE prev
  /\ run' = NoRun
  /\ UNCHANGED otherVars
  /\ UNCHANGED <<ENV, userDoc, strayDir, provider, faults, storage, bronze,
                 metrics, silver, clock, streamsLeft, loaded, timestamp,
                 jobState>>

Next ==
  \/ \E c \in Calls, allow \in SUBSET Streams : Invoke(c, allow)
  \/ Ingest
  \/ BronzeStart
  \/ ConvertStream
  \/ UpsertLoad
  \/ InsertMetricsSuccess
  \/ InsertMetricsFailure
  \/ SilverEtl
  \/ Return

Spec == Init /\ [][Next]_vars

\* the pipeline of a connected user, with SAMPLE set to 0 or not set
InitSampled ==
  /\ InitPipeline
  /\ ENV = "dev"
  /\ userDoc = "ok"
  /\ ~strayDir
  /\ BatchOff
  /\ SilverOff
  /\ SchemaOff
  /\ PoolIdle
  /\ SAMPLE \in {NoSample, 0}
  /\ RestOff

SpecSampled == InitSampled /\ [][Next]_vars

\* ---------------------------------------------------------------------
\* BatchHandler.process_all_users
\* ---------------------------------------------------------------------

\* the pipeline of one user at rest, whatever its bucket, its bronze
\* tables and the metrics tables hold
PipeRest ==
  /\ ENV = "dev"
  /\ userDoc = "ok"
  /\ strayDir = FALSE
  /\ provider = EmptyStorage
  /\ faults = 0
  /\ silver = {}
  /\ clock = 0
  /\ call = "none"
  /\ data_streams = {}
  /\ pc = "idle"
  /\ result = "none"
  /\ raisedIn = "none"
  /\ stages = <<>>
  /\ streamsLeft = <<>>
  /\ loaded = <<>>
  /\ timestamp = 0
  /\ jobState = "none"
  /\ run = NoRun
  /\ prev = NoPrev

\* the pipeline of one user at rest, before any call
PipeOff ==
  PipeRest /\ storage = EmptyStorage /\ bronze = {} /\ metrics = {}

Uids == {"u1", "u2"}    \* values of the uid field of a user document
NoUid == ""             \* user.get("uid") of a document without one

\* the contents the users collection can have
UserLists == UNION {[1..n -> Uids \cup {NoUid}] : n \in 0..MaxUsers}

\* the except branch of the loop leaving the loop
OnUserError_Raise == "raise"

\* process_all_users: what the except branch of the loop does
OnUserError == "continue"

InitBatch ==
  /\ PipeOff
  /\ SilverOff
  /\ SchemaOff
  /\ PoolOff
  /\ RestOff
  /\ users \in UserLists
  /\ batchPc = "list"
  /\ userIndex = 0
  /\ processed = <<>>
  /\ failed = {}
  /\ batchResult = "running"

\* get_all_users: the collection is listed, or listing it raises
GetAllUsers ==
  /\ batchPc = "list"
  /\ \E ok \in BOOLEAN :
       IF ok THEN /\ batchPc' = "loop"
                  /\ userIndex' = 1
                  /\ UNCHANGED batchResult
             ELSE /\ batchPc' = "done"
                  /\ batchResult' = "raised"
                  /\ UNCHANGED userIndex
  /\ UNCHANGED <<users, processed, failed>>
  /\ UNCHANGED <<pipeVars, silverVars, schemaVars, poolVars, restVars>>

\* one iteration of the loop over users: process_user returns or raises
ProcessNextUser ==
  /\ batchPc = "loop"
  /\ userIndex <= Len(users)
  /\ IF users[userIndex] = NoUid
     THEN /\ userIndex' = userIndex + 1
          /\ UNCHANGED <<batchPc, processed, failed, batchResult>>
     ELSE \E raises \in BOOLEAN :
            /\ processed' = Append(processed, userIndex)
            /\ failed' = IF raises THEN failed \cup {userIndex} ELSE failed
            /\ IF raises /\ OnUserError = "raise"
               THEN /\ batchPc' = "done"
                    /\ batchResult' = "raised"
                    /\ UNCHANGED userIndex
               ELSE /\ userIndex' = userIndex + 1
                    /\ UNCHANGED <<batchPc, batchResult>>
  /\ UNCHANGED users
  /\ UNCHANGED <<pipeVars, silverVars, schemaVars, poolVars, restVars>>

\* the loop is over: process_all_users returns
FinishBatch ==
  /\ batchPc = "loop"
  /\ userIndex > Len(users)
  /\ batchPc' = "done"
  /\ batchResult' = "returned"
  /\ UNCHANGED <<users, userIndex, processed, failed>>
  /\ UNCHANGED <<pipeVars, silverVars, schemaVars, poolVars, restVars>>

NextBatch ==
  \/ GetAllUsers
  \/ ProcessNextUser
  \/ FinishBatch

SpecBatch == InitBatch /\ [][NextBatch]_vars

\* ---------------------------------------------------------------------
\* SilverStravaETLInterface.task_handler
\* ---------------------------------------------------------------------

OtherAthlete == "7"     \* an athlete the run is not for

\* what a template file can hold: a SELECT, or a statement without one
Bodies == {"select", "other"}

\* what a query job can come to: result() returns with the job DONE,
\* result() raises, or result() returns with the job not DONE, with or
\* without an error
JobOutcomes == {"DONE", "RAISED", "ERROR", "PENDING"}
JobState(o) == IF o = "DONE" THEN "DONE" ELSE "PENDING"
JobError(o) == o = "ERROR"

\* task_handler: the condition under which a template is skipped
JobSkipped(o) == JobState(o) # "DONE" /\ JobError(o)

\* get_parameterized_query: parsed.find(exp.Select); a body is "select" when
\* its parse tree holds a SELECT
FindSelect(body) == body = "select"

\* the rows the SELECT of a template yields for an athlete: one for each of
\* the athlete's rows in the bronze activity table
TemplateSelect(rows, athlete_id) ==
  {[athlete_id |-> athlete_id, activity_id |-> r.activity_id] :
     r \in {b \in rows : b.athlete_id = athlete_id /\ b.data_stream = "activity"}}

\* a DELETE FROM target without the WHERE clause
get_delete_user_data_query_NoWhere(table, athlete_id) == table

\* get_delete_user_data_query: the rows that
\* DELETE FROM target WHERE athlete_id = '...' removes
get_delete_user_data_query(table, athlete_id) ==
  {r \in table : r.athlete_id = athlete_id}

\* a delete that removes no row
get_delete_query_NoRows(table, athlete_id) == table

\* get_delete_query: the table after the statement of
\* get_delete_user_data_query has run
get_delete_query(table, athlete_id) ==
  table \ get_delete_user_data_query(table, athlete_id)

\* get_insert_query: INSERT INTO target, appending one more copy of each row
get_insert_query(table, new) ==
  table \cup {[athlete_id |-> n.athlete_id, activity_id |-> n.activity_id,
               copy |-> 1 + Cardinality({r \in table :
                                           /\ r.athlete_id = n.athlete_id
                                           /\ r.activity_id = n.activity_id})]
              : n \in new}

\* rows a target table can hold before the first run
StartRows ==
  {{},
   {[athlete_id |-> OtherAthlete, activity_id |-> 1, copy |-> 1]},
   {[athlete_id |-> OtherAthlete, activity_id |-> 1, copy |-> 1],
    [athlete_id |-> AthleteId, activity_id |-> 0, copy |-> 1]}}

\* the athlete's bronze activity table holding activities 1..k
BronzeActivities(k) ==
  DataframeRows("activity",
                [i \in 1..k |-> SummaryLoad(i)], 1)

InitSilver ==
  /\ PipeRest
  /\ storage = EmptyStorage
  /\ metrics = {}
  /\ BatchOff
  /\ SchemaOff
  /\ PoolOff
  /\ RestOff
  /\ bronze \in {BronzeActivities(k) : k \in 0..MaxActivity}
  /\ list_of_queries \in UNION {[1..n -> Bodies] : n \in 1..MaxTemplates}
  /\ \E rows \in StartRows : silverTables = [n \in 1..MaxTemplates |-> rows]
  /\ silverPc = "idle"
  /\ templateIndex = 0
  /\ executed = {}
  /\ silverClean = TRUE
  /\ silverSnap = NoSnap
  /\ silverResult = "none"
  /\ silverRuns = 0

\* task_handler is called
StartSilver ==
  /\ silverPc = "idle"
  /\ silverRuns < MaxSilverRuns
  /\ silverRuns' = silverRuns + 1
  /\ silverPc' = "delete"
  /\ templateIndex' = 1
  /\ executed' = {}
  /\ silverClean' = TRUE
  /\ silverResult' = "running"
  /\ UNCHANGED <<list_of_queries, silverTables, silverSnap>>
  /\ UNCHANGED <<pipeVars, batchVars, schemaVars, poolVars, restVars>>

\* the loop goes on with the template after this one, or task_handler returns
NextTemplate ==
  IF templateIndex = Len(list_of_queries)
  THEN /\ silverPc' = "done"
       /\ silverResult' = "returned"
       /\ UNCHANGED templateIndex
  ELSE /\ silverPc' = "delete"
       /\ templateIndex' = templateIndex + 1
       /\ UNCHANGED silverResult

\* an exception leaves task_handler
SilverAborts ==
  /\ silverPc' = "done"
  /\ silverResult' = "raised"
  /\ UNCHANGED templateIndex

\* the delete job of the template
DeleteStep ==
  /\ silverPc = "delete"
  /\ \E o \in JobOutcomes :
       /\ executed' = executed \cup {[template |-> templateIndex, step |-> "delete", outcome |-> o]}
       /\ silverClean' = (silverClean /\ o = "DONE")
       /\ silverTables' =
            IF o = "DONE"
            THEN [silverTables EXCEPT ![templateIndex] =
                    get_delete_query(@, AthleteId)]
            ELSE silverTables
       /\ IF o = "RAISED" THEN SilverAborts
          ELSE IF JobSkipped(o) THEN NextTemplate
          ELSE /\ silverPc' = "insert"
               /\ UNCHANGED <<templateIndex, silverResult>>
  /\ UNCHANGED <<list_of_queries, silverSnap, silverRuns>>
  /\ UNCHANGED <<pipeVars, batchVars, schemaVars, poolVars, restVars>>

\* get_insert_query and the insert job of the template
InsertStep ==
  /\ silverPc = "insert"
  /\ IF ~FindSelect(list_of_queries[templateIndex])
     THEN /\ SilverAborts
          /\ silverClean' = FALSE
          /\ UNCHANGED <<executed, silverTables>>
     ELSE \E o \in JobOutcomes :
            /\ executed' = executed \cup {[template |-> templateIndex, step |-> "insert", outcome |-> o]}
            /\ silverClean' = (silverClean /\ o = "DONE")
            /\ silverTables' =
                 IF o = "DONE"
                 THEN [silverTables EXCEPT ![templateIndex] =
                         get_insert_query(@, TemplateSelect(bronze, AthleteId))]
                 ELSE silverTables
            /\ IF o = "RAISED" THEN SilverAborts ELSE NextTemplate
  /\ UNCHANGED <<list_of_queries, silverSnap, silverRuns>>
  /\ UNCHANGED <<pipeVars, batchVars, schemaVars, poolVars, restVars>>

\* task_handler has returned or raised
EndSilver ==
  /\ silverPc = "done"
  /\ silverPc' = "idle"
  /\ silverSnap' = IF silverClean /\ silverResult = "returned"
                   THEN [valid |-> TRUE, tables |-> silverTables] ELSE NoSnap
  /\ silverResult' = "none"
  /\ templateIndex' = 0
  /\ executed' = {}
  /\ silverClean' = TRUE
  /\ UNCHANGED <<list_of_queries, silverTables, silverRuns>>
  /\ UNCHANGED <<pipeVars, batchVars, schemaVars, poolVars, restVars>>

NextSilver ==
  \/ StartSilver
  \/ DeleteStep
  \/ InsertStep
  \/ EndSilver

SpecSilver == InitSilver /\ [][NextSilver]_vars

\* ---------------------------------------------------------------------
\* Properties
\* ---------------------------------------------------------------------

\* the metrics rows of file a = <<stream, activity_id>> written at time ts
RowsFor(a, ts) ==
  {m \in metrics : /\ m.data_stream = a[1]
                   /\ m.activity_id = a[2]
                   /\ m.bq_insert_timestamp = ts}

\* the files of the run that went into load job j
FilesOf(j) == {a \in run.attempted : a[1] = j.stream}

\* upsert_to_bigquery has returned or raised for load job j
UpsertOver(j) ==
  ~(pc \in {"metricsSuccess", "metricsFailure"} /\ timestamp = j.ts)

\* the streams load_json_into_bq set out to process in the run
Plan == Allowed(StoredStreams(run.store), run.allow)

\* the loop went on after the stream of job j: the stream after it was
\* reached, or the run returned when it was the last one
WentOn(j) ==
  LET k == CHOOSE n \in DOMAIN Plan : Plan[n] = j.stream
  IN IF k < Len(Plan)
     THEN \/ Plan[k + 1] \in run.visited
          \/ (pc = "convert" /\ Head(streamsLeft) = Plan[k + 1])
     ELSE run.ended /\ run.error = "none"

\* C1: a bronze run that directly follows a run with the same allow-list
\* whose bronze and metrics writes all succeeded, with no artifact stored in
\* between, appends no row to a bronze table and no row to a metrics table.
C1_SecondRunAppendsNothing ==
  (run.started /\ prev.valid /\ prev.allow = run.allow)
    => (run.rowsAdded = 0 /\ run.metricsAdded = 0)

\* C2: the files a bronze run loads for a stream are exactly the stored
\* artifacts of the stream whose activity id has no SUCCESS metrics row.
C2_LoadsExactlyUnprocessed ==
  pc = "load" =>
    LET s == Head(streamsLeft) IN
    {loaded[k].activity_id : k \in DOMAIN loaded}
      = {i \in ActivityIds :
           /\ storage[s][i].present
           /\ ~\E m \in metrics : /\ m.athlete_id = AthleteId
                                  /\ m.data_stream = s
                                  /\ m.activity_id = i
                                  /\ m.status = "SUCCESS"}

\* C3: when loading an artifact raises, the run is not aborted by it and a
\* FAILURE metrics row of the run is recorded for that artifact.
C3_MalformedIsolated ==
  \A a \in run.malformed :
    /\ run.error # "LoadError"
    /\ run.ended => \E m \in metrics : /\ m.data_stream = a[1]
                                       /\ m.activity_id = a[2]
                                       /\ m.status = "FAILURE"
                                       /\ m.bq_insert_timestamp \in run.stamps

\* C4: when a bronze run has ended, every artifact it attempted has exactly
\* one metrics row of the run, with status SUCCESS or FAILURE, and all
\* metrics rows of the run carry one and the same timestamp.
C4_OneMetricsRowPerAttempt ==
  run.ended =>
    LET mine == {m \in metrics : m.bq_insert_timestamp \in run.stamps} IN
    /\ \A a \in run.attempted :
         Cardinality({m \in mine : m.data_stream = a[1]
                                   /\ m.activity_id = a[2]}) = 1
    /\ \A m \in mine : m.status \in {"SUCCESS", "FAILURE"}
    /\ Cardinality({m.bq_insert_timestamp : m \in mine}) <= 1

\* C5: every metrics row of the run belongs to a load job of its stream that
\* has already returned a result, a SUCCESS row to a job that reported DONE;
\* and the bronze table holds the record_count rows of every SUCCESS row.
C5_MetricsAfterWrite ==
  /\ \A m \in metrics : m.bq_insert_timestamp \in run.stamps =>
       \E j \in run.jobs : /\ j.stream = m.data_stream
                           /\ j.ts = m.bq_insert_timestamp
                           /\ m.status = "SUCCESS" => j.state = "DONE"
  /\ \A m \in metrics : m.status = "SUCCESS" =>
       Cardinality({b \in bronze : /\ b.data_stream = m.data_stream
                                   /\ b.activity_id = m.activity_id
                                   /\ b.ts = m.bq_insert_timestamp})
         = m.record_count

\* a SUCCESS row of the running bronze run with rows in the bronze table
C5_Witness ==
  \E m \in metrics : /\ m.bq_insert_timestamp \in run.stamps
                     /\ m.status = "SUCCESS"
                     /\ m.record_count > 0

C7_CommittedNeverFailure ==
  \A j \in run.jobs : (j.state = "DONE" /\ UpsertOver(j)) =>
    \A a \in FilesOf(j) :
      /\ \A m \in RowsFor(a, j.ts) : m.status # "FAILURE"
      /\ WentOn(j) => \E m \in RowsFor(a, j.ts) : m.status = "SUCCESS"

\* C8: a run over the athlete's stored directories whose allow-list names a
\* stream type that has no stored directory loads nothing and ends with an
\* error.
C8_MissingStreamIsFatal ==
  (/\ run.started
   /\ StoredStreams(run.store) # <<>>
   /\ \E s \in run.allow : \A i \in ActivityIds : ~run.store[s][i].present)
    => /\ run.attempted = {}
       /\ run.visited = {}
       /\ run.ended
       /\ run.error # "none"

\* C9: full_etl starts INGEST, BRONZE, SILVER in this order, each at most
\* once; when INGEST raises no other stage is started and the call raises.
C9_StageOrder ==
  call = "full_etl" =>
    /\ \E n \in 0..3 : stages = SubSeq(<<"INGEST", "BRONZE", "SILVER">>, 1, n)
    /\ raisedIn = "ingest" =>
         (stages = <<"INGEST">> /\ pc = "done" /\ result = "raised")

\* full_etl whose ingest stage raised
C9_Witness == call = "full_etl" /\ raisedIn = "ingest" /\ pc = "done"

\* C10: full_etl starts SILVER only after a bronze stage that returned with
\* every load job of the run DONE; a failed warehouse write of a stream keeps
\* SILVER from starting.
C10_NoSilverAfterFailedWrite ==
  (call = "full_etl" /\ \E k \in DOMAIN stages : stages[k] = "SILVER")
    => /\ run.started /\ run.ended /\ run.error = "none"
       /\ \A j \in run.jobs : j.state = "DONE"

\* C11: while full_etl runs for a user whose connection-state document is
\* absent or lacks athlete.id, no step writes a raw artifact, a bronze row, a
\* metrics row or a silver row, and the call ends by raising.
C11_FailFastWritesNothing ==
  [][(call = "full_etl" /\ userDoc # "ok") =>
       /\ storage' = storage
       /\ bronze' = bronze
       /\ metrics' = metrics
       /\ silver' = silver
       /\ pc' = "done" => result' = "raised"]_vars

\* the indexes of the first n listed users that have a uid, in listing order
WithUid(n) == SelectSeq([i \in 1..n |-> i], LAMBDA i : users[i] # NoUid)

\* C12: process_user is called exactly once for every listed user with a uid,
\* in listing order, whatever the calls before it raised; process_all_users
\* raises only when listing the users failed, and returns otherwise.
C12_EveryUserOnce ==
  /\ batchPc = "loop" => processed = WithUid(userIndex - 1)
  /\ batchPc = "done" =>
       \/ batchResult = "raised" /\ userIndex = 0 /\ processed = <<>>
       \/ batchResult = "returned" /\ processed = WithUid(Len(users))
  /\ failed \subseteq {processed[k] : k \in DOMAIN processed}

\* process_all_users returned after a user failed and a later one was processed
C12_Witness ==
  /\ batchPc = "done"
  /\ batchResult = "returned"
  /\ \E i \in failed : \E k \in DOMAIN processed : processed[k] > i
  /\ \E i \in DOMAIN users : users[i] = NoUid

\* ---------------------------------------------------------------------
\* get_schema_path
\* ---------------------------------------------------------------------

None == "None"

\* class StravaStreams: the member names, in definition order
StravaStreams ==
  <<"ACTIVITY", "ATHLETE_SUMMARY", "TIME", "DISTANCE", "LATLNG", "ALTITUDE",
    "VELOCITY_SMOOTH", "HEARTRATE", "CADENCE", "WATTS", "TEMP", "MOVING",
    "GRADE_SMOOTH">>

\* class StravaStreams: the value of each member
StreamValue ==
  [ACTIVITY |-> "activity", ATHLETE_SUMMARY |-> "athlete_summary",
   TIME |-> "time", DISTANCE |-> "distance", LATLNG |-> "latlng",
   ALTITUDE |-> "altitude", VELOCITY_SMOOTH |-> "velocity_smooth",
   HEARTRATE |-> "heartrate", CADENCE |-> "cadence", WATTS |-> "watts",
   TEMP |-> "temp", MOVING |-> "moving", GRADE_SMOOTH |-> "grade_smooth"]

\* class FitnessLLMDataSource: the member names and their values
DataSources == <<"STRAVA">>
SourceValue == [STRAVA |-> "STRAVA"]

\* str.lower() on the values it is applied to
Lower(v) == IF v = "STRAVA" THEN "strava" ELSE v

\* filter_streams ignoring its exclude list
filter_streams_NoExclude(include, exclude) ==
  IF include # {}
  THEN SelectSeq(StravaStreams, LAMBDA m : m \in include)
  ELSE <<>>

\* StravaStreams.filter_streams
filter_streams(include, exclude) ==
  IF include # {}
  THEN SelectSeq(StravaStreams, LAMBDA m : m \in include)
  ELSE IF exclude # {}
  THEN SelectSeq(StravaStreams, LAMBDA m : m \notin exclude)
  ELSE <<>>

\* the members of a list
Members(list) == {list[k] : k \in DOMAIN list}

\* get_schema_path: the pieces of the path it returns
get_schema_path(data_source, data_stream) ==
  IF data_source # None /\ data_stream # None
  THEN LET schema_name ==
             IF data_stream \in
                  Members(filter_streams({}, {"ACTIVITY", "ATHLETE_SUMMARY",
                                              "LATLNG"}))
             THEN "generic_stream"
             ELSE Lower(StreamValue[data_stream])
       IN <<"fitnessllm_dataplatform/stream", Lower(SourceValue[data_source]),
            "schemas/bronze/json", schema_name, "json">>
  ELSE <<"fitnessllm_dataplatform/schemas", "metrics", "json">>

\* the schema a returned path names
SchemaName(path) == path[Len(path) - 1]

InitSchema ==
  /\ PipeOff
  /\ BatchOff
  /\ SilverOff
  /\ PoolOff
  /\ RestOff
  /\ schemaCalls = <<>>

\* one call of get_schema_path
GetSchemaPath ==
  /\ Len(schemaCalls) < MaxResolves
  /\ \E data_source \in Members(DataSources) \cup {None} :
       \E data_stream \in Members(StravaStreams) \cup {None} :
          schemaCalls' = Append(schemaCalls,
             [data_source |-> data_source, data_stream |-> data_stream,
              path |-> get_schema_path(data_source, data_stream)])
  /\ UNCHANGED <<pipeVars, batchVars, silverVars, poolVars, restVars>>

NextSchema == GetSchemaPath

SpecSchema == InitSchema /\ [][NextSchema]_vars

\* ---------------------------------------------------------------------
\* convert_stream_json_to_dataframe: the loading workers
\* ---------------------------------------------------------------------

\* the branch taken: int(WORKER or 1) > 1 or WORKER is None
UsePool(w) == w > 1 \/ w = NoWorker

\* n_jobs of Parallel
n_jobs(w) == IF w # NoWorker THEN w ELSE CpuCount

\* filtered_module_strava_json_list
Candidates == FilteredList(storage, metrics, ENV, poolStream, SAMPLE)

\* what one call of load_json_into_dataframe gives
LoadOne(i) ==
  IF LoadRaises(storage, poolStream, i)
  THEN [state |-> "raised", activity_id |-> i, record_count |-> 0]
  ELSE [state |-> "loaded",
        activity_id |-> load_json_into_dataframe(storage, poolStream, i).activity_id,
        record_count |-> load_json_into_dataframe(storage, poolStream, i).record_count]

\* the list comprehension of the sequential branch
Sequential(files) ==
  IF \E k \in DOMAIN files : LoadOne(files[k]).state = "raised"
  THEN [raised |-> TRUE, list |-> <<>>]
  ELSE [raised |-> FALSE, list |-> [k \in DOMAIN files |-> LoadOne(files[k])]]

\* results handed back in the order the loads ended
Parallel_CompletionOrder(got, order) ==
  IF \E k \in DOMAIN got : got[k].state = "raised"
  THEN [raised |-> TRUE, list |-> <<>>]
  ELSE [raised |-> FALSE, list |-> [k \in DOMAIN order |-> got[order[k]]]]

\* Parallel(...)(...): the results in the order of the tasks, or the
\* exception of a task
Parallel(got, order) ==
  IF \E k \in DOMAIN got : got[k].state = "raised"
  THEN [raised |-> TRUE, list |-> <<>>]
  ELSE [raised |-> FALSE, list |-> got]

\* a task has raised: no further task is handed out
Aborting == \E k \in DOMAIN slots : slots[k].state = "raised"

InitPool ==
  /\ PipeRest
  /\ bronze = {}
  /\ BatchOff
  /\ SilverOff
  /\ SchemaOff
  /\ RestOff
  /\ WORKER \in {NoWorker} \cup (1..MaxWorkers)
  /\ SAMPLE \in {NoSample} \cup (0..MaxActivity)
  /\ poolStream \in Streams
  /\ \E dir \in [ActivityIds -> {NoFile} \cup Contents(poolStream)] :
       /\ \E i \in ActivityIds : dir[i].present
       /\ storage = [EmptyStorage EXCEPT ![poolStream] = dir]
  /\ \E done \in SUBSET ActivityIds :
       metrics = MetricsRows(SuccessDestination(ENV), poolStream,
                             SelectSeq([i \in ActivityIds |->
                                          [activity_id |-> i, record_count |-> 1]],
                                       LAMBDA f : f.activity_id \in done),
                             1, DoneStatus)
  /\ dispatched = 0
  /\ running = [w \in 1..n_jobs(WORKER) |-> 0]
  /\ slots = [k \in DOMAIN Candidates |-> Pending]
  /\ finished = <<>>
  /\ poolPc = "run"
  /\ poolResult = NoResult

\* no candidate is left: return [], []
ReturnEmpty ==
  /\ poolPc = "run"
  /\ Candidates = <<>>
  /\ poolResult' = [raised |-> FALSE, list |-> <<>>]
  /\ poolPc' = "done"
  /\ UNCHANGED <<WORKER, SAMPLE, poolStream, dispatched, running, slots, finished>>
  /\ UNCHANGED <<pipeVars, batchVars, silverVars, schemaVars, restVars>>

\* the sequential branch
SequentialLoads ==
  /\ poolPc = "run"
  /\ Candidates # <<>>
  /\ ~UsePool(WORKER)
  /\ poolResult' = Sequential(Candidates)
  /\ poolPc' = "done"
  /\ UNCHANGED <<WORKER, SAMPLE, poolStream, dispatched, running, slots, finished>>
  /\ UNCHANGED <<pipeVars, batchVars, silverVars, schemaVars, restVars>>

\* a free worker takes the next candidate
Dispatch ==
  /\ poolPc = "run"
  /\ UsePool(WORKER)
  /\ ~Aborting
  /\ dispatched < Len(Candidates)
  /\ \E w \in DOMAIN running :
       /\ running[w] = 0
       /\ running' = [running EXCEPT ![w] = dispatched + 1]
  /\ dispatched' = dispatched + 1
  /\ UNCHANGED <<WORKER, SAMPLE, poolStream, slots, finished, poolPc, poolResult>>
  /\ UNCHANGED <<pipeVars, batchVars, silverVars, schemaVars, restVars>>

\* the load a worker is running ends
Finish ==
  /\ poolPc = "run"
  /\ \E w \in DOMAIN running :
       /\ running[w] # 0
       /\ slots' = [slots EXCEPT ![running[w]] = LoadOne(Candidates[running[w]])]
       /\ finished' = Append(finished, running[w])
       /\ running' = [running EXCEPT ![w] = 0]
  /\ UNCHANGED <<WORKER, SAMPLE, poolStream, dispatched, poolPc, poolResult>>
  /\ UNCHANGED <<pipeVars, batchVars, silverVars, schemaVars, restVars>>

\* Parallel returns or raises
Collect ==
  /\ poolPc = "run"
  /\ Candidates # <<>>
  /\ UsePool(WORKER)
  /\ \A w \in DOMAIN running : running[w] = 0
  /\ Aborting \/ dispatched = Len(Candidates)
  /\ poolResult' = Parallel(slots, finished)
  /\ poolPc' = "done"
  /\ UNCHANGED <<WORKER, SAMPLE, poolStream, dispatched, running, slots, finished>>
  /\ UNCHANGED <<pipeVars, batchVars, silverVars, schemaVars, restVars>>

NextPool ==
  \/ ReturnEmpty
  \/ SequentialLoads
  \/ Dispatch
  \/ Finish
  \/ Collect

SpecPool == InitPool /\ [][NextPool]_vars

\* ---------------------------------------------------------------------
\* token_refresh (cloud function)
\* ---------------------------------------------------------------------

NoToken == 0            \* a token field that is missing or empty

\* the stored (encrypted) access token that goes with the stored refresh
\* token n
AccessOf(n) == n + 100

\* a stream document that does not exist
NoDoc == [exists |-> FALSE, accessToken |-> NoToken, refreshToken |-> NoToken,
          expiresAt |-> 0, lastTokenRefresh |-> 0, athlete |-> 0]

\* a strava stream document holding the tokens of generation n, beside the
\* athlete field written when the account was connected
DocOf(n) ==
  [exists |-> TRUE, accessToken |-> AccessOf(n), refreshToken |-> n,
   expiresAt |-> n, lastTokenRefresh |-> 0, athlete |-> 42]

\* a strava stream document without a refresh token
DocNoRefresh == [DocOf(1) EXCEPT !.refreshToken = NoToken]

\* new_tokens as strava_refresh_oauth_token builds it from the response of
\* the provider to the refresh token, at time now
NewTokens(refresh_token, now) ==
  LET n == refresh_token + 1 IN
  [accessToken |-> AccessOf(n), refreshToken |-> n,
   expiresAt |-> n, lastTokenRefresh |-> now]

\* strava_update_user_tokens rewriting the whole document
strava_update_user_tokens_Set(docs, uid, new_tokens) ==
  [docs EXCEPT ![uid] =
     [exists |-> TRUE, accessToken |-> new_tokens.accessToken,
      refreshToken |-> new_tokens.refreshToken,
      expiresAt |-> new_tokens.expiresAt,
      lastTokenRefresh |-> new_tokens.lastTokenRefresh, athlete |-> 0]]

\* strava_update_user_tokens: set() when the document does not exist,
\* update() of the four token fields when it does
strava_update_user_tokens(docs, uid, new_tokens) ==
  IF ~docs[uid].exists
  THEN [docs EXCEPT ![uid] =
          [exists |-> TRUE, accessToken |-> new_tokens.accessToken,
           refreshToken |-> new_tokens.refreshToken,
           expiresAt |-> new_tokens.expiresAt,
           lastTokenRefresh |-> new_tokens.lastTokenRefresh, athlete |-> 0]]
  ELSE [docs EXCEPT ![uid].accessToken = new_tokens.accessToken,
                    ![uid].refreshToken = new_tokens.refreshToken,
                    ![uid].expiresAt = new_tokens.expiresAt,
                    ![uid].lastTokenRefresh = new_tokens.lastTokenRefresh]

\* what the Authorization header of a request can be: missing or not a
\* Bearer header, a Bearer header with an empty token, a token that
\* verify_id_token rejects, a token it cannot check, a token without uid
\* and sub claims, a token of a user
AuthCases == {"noBearer", "emptyBearer", "rejected", "unavailable", "noUid",
              "verified"}

\* the responses of token_refresh
InternalErrorStatus == 500

\* an invalid token answered like an internal error
InvalidTokenStatus_500 == InternalErrorStatus
InvalidTokenStatus == 401
MissingDataSourceStatus == 400

\* what strava_refresh_oauth_token can come to
RefreshOutcomes == {"ok", "noCredentials", "raised"}

\* token_refresh: the status answered and whether the provider refresh is
\* invoked; doc is the stream document of the request's uid and data source
token_refresh(req, user_docs, doc, outcome) ==
  IF req.method = "OPTIONS" THEN [status |-> 204, refresh |-> FALSE]
  ELSE IF req.data_source = ""
  THEN [status |-> MissingDataSourceStatus, refresh |-> FALSE]
  ELSE IF req.auth \in {"noBearer", "emptyBearer", "rejected", "noUid"}
  THEN [status |-> InvalidTokenStatus, refresh |-> FALSE]
  ELSE IF req.auth = "unavailable" THEN [status |-> InternalErrorStatus, refresh |-> FALSE]
  ELSE IF req.uid \notin user_docs THEN [status |-> 404, refresh |-> FALSE]
  ELSE IF ~doc.exists THEN [status |-> 404, refresh |-> FALSE]
  ELSE IF doc.refreshToken = NoToken THEN [status |-> 400, refresh |-> FALSE]
  ELSE IF req.data_source # "strava" THEN [status |-> 400, refresh |-> FALSE]
  ELSE IF outcome = "ok" THEN [status |-> 200, refresh |-> TRUE]
  ELSE [status |-> InternalErrorStatus, refresh |-> TRUE]

InitToken ==
  /\ PipeOff
  /\ BatchOff
  /\ SilverOff
  /\ SchemaOff
  /\ PoolOff
  /\ PairOff
  /\ IngestOff
  /\ StartupOff
  /\ usersColl \in SUBSET Uids
  /\ streamDocs \in [Uids -> {NoDoc, DocNoRefresh, DocOf(1)}]
  /\ request = NoRequest
  /\ response = 0
  /\ refreshCalled = FALSE
  /\ tokenOp = "none"
  /\ tokenSteps = 0

\* one request handled by token_refresh
TokenRefresh ==
  /\ tokenSteps < MaxTokenSteps
  /\ \E method \in {"OPTIONS", "POST"} :
     \E data_source \in {"", "strava", "garmin"} :
     \E a \in AuthCases :
     \E uid \in Uids :
     \E other \in IF data_source = "garmin" /\ a = "verified"
                  THEN {NoDoc, DocNoRefresh, DocOf(1)} ELSE {NoDoc} :
     \E outcome \in IF data_source = "strava" /\ a = "verified"
                    THEN RefreshOutcomes ELSE {"ok"} :
       LET req == [method |-> method, data_source |-> data_source, auth |-> a,
                   uid |-> IF a = "verified" THEN uid ELSE ""]
           doc == IF data_source = "strava" THEN streamDocs[uid] ELSE other
           r == token_refresh(req, usersColl, doc, outcome)
       IN /\ request' = req
          /\ response' = r.status
          /\ refreshCalled' = r.refresh
          /\ streamDocs' =
               IF r.refresh /\ outcome = "ok"
               THEN strava_update_user_tokens(streamDocs, uid,
                       NewTokens(doc.refreshToken, tokenSteps + 1))
               ELSE streamDocs
  /\ tokenOp' = "token_refresh"
  /\ tokenSteps' = tokenSteps + 1
  /\ UNCHANGED usersColl
  /\ UNCHANGED <<pipeVars, batchVars, silverVars, schemaVars, poolVars, pairVars,
                 ingestVars, startupVars>>

\* the new_tokens the direct calls of strava_update_user_tokens pass
DirectTokens(now) == NewTokens(5, now)

\* one call of strava_update_user_tokens
StravaUpdateUserTokens ==
  /\ tokenSteps < MaxTokenSteps
  /\ \E uid \in Uids :
       /\ request' = [NoRequest EXCEPT !.uid = uid]
       /\ streamDocs' = strava_update_user_tokens(streamDocs, uid,
                                                  DirectTokens(tokenSteps + 1))
  /\ response' = 0
  /\ refreshCalled' = FALSE
  /\ tokenOp' = "strava_update_user_tokens"
  /\ tokenSteps' = tokenSteps + 1
  /\ UNCHANGED usersColl
  /\ UNCHANGED <<pipeVars, batchVars, silverVars, schemaVars, poolVars, pairVars,
                 ingestVars, startupVars>>

NextToken ==
  \/ TokenRefresh
  \/ StravaUpdateUserTokens

SpecToken == InitToken /\ [][NextToken]_vars

\* ---------------------------------------------------------------------
\* Two pipeline runs, for two athletes, writing one warehouse
\* ---------------------------------------------------------------------
Athletes == {AthleteId, OtherAthlete}

\* every dataframe row stamped with the id of one and the same athlete
DataframeRowsFor_SharedId(athlete_id, s, mlist, ts) == DataframeRows(s, mlist, ts)

\* df["athlete_id"] = self.athlete_id: the rows of the run for athlete_id
DataframeRowsFor(athlete_id, s, mlist, ts) ==
  {[r EXCEPT !.athlete_id = athlete_id] : r \in DataframeRows(s, mlist, ts)}

\* insert_metrics: the metrics rows of the run for athlete_id
MetricsRowsFor(athlete_id, destination, s, mlist, ts, status) ==
  {[r EXCEPT !.athlete_id = athlete_id] :
     r \in MetricsRows(destination, s, mlist, ts, status)}

\* the per-file metrics of the candidate files, one row per artifact
PartialMetrics(files) ==
  [k \in DOMAIN files |-> SummaryLoad(files[k])]

\* what an earlier complete run of the athlete over activity 1 left behind
EarlierTables(athlete_id) ==
  LET m == PartialMetrics(<<1>>)
      b == DataframeRowsFor(athlete_id, "activity", m, 0)
  IN [bronze |-> b,
      metrics |-> MetricsRowsFor(athlete_id, SuccessDestination(ENV), "activity",
                                 m, 0, DoneStatus),
      silver |-> get_insert_query({}, TemplateSelect(b, athlete_id))]

\* the union of what two sets of tables hold
Both(x, y) ==
  [bronze |-> x.bronze \cup y.bronze, metrics |-> x.metrics \cup y.metrics,
   silver |-> x.silver \cup y.silver]

\* the rows of one athlete
OwnRows(tables, athlete_id) ==
  [bronze |-> {r \in tables.bronze : r.athlete_id = athlete_id},
   metrics |-> {r \in tables.metrics : r.athlete_id = athlete_id},
   silver |-> {r \in tables.silver : r.athlete_id = athlete_id}]

\* get_strava_json_list: the stored artifacts the selector did not return
StravaJsonList(tables, athlete_id, files) ==
  SelectSeq(files, LAMBDA i :
     i \notin create_activities_query(tables.metrics, ENV, athlete_id, "activity"))

\* a run before its first step
NewPairRun(files) ==
  [pc |-> "select", files |-> files, list |-> <<>>, aloneList |-> <<>>,
   job |-> "none"]

InitPair ==
  /\ PipeOff
  /\ BatchOff
  /\ SilverOff
  /\ SchemaOff
  /\ PoolOff
  /\ TokenOff
  /\ IngestOff
  /\ StartupOff
  /\ \E earlier \in [Athletes -> BOOLEAN] :
       LET start == Both(IF earlier[AthleteId] THEN EarlierTables(AthleteId)
                         ELSE EmptyWarehouse,
                         IF earlier[OtherAthlete] THEN EarlierTables(OtherAthlete)
                         ELSE EmptyWarehouse)
       IN /\ pairTables = start
          /\ pairAlone = [a \in Athletes |-> start]
  /\ pairRuns \in [Athletes -> {NewPairRun(SubSeq(IdSeq, 1, k)) : k \in ActivityIds}]

PairFrame ==
  UNCHANGED <<pipeVars, batchVars, silverVars, schemaVars, poolVars, tokenVars,
              ingestVars, startupVars>>

\* get_strava_json_list of the run for athlete a
PairSelect(a) ==
  /\ pairRuns[a].pc = "select"
  /\ LET list == StravaJsonList(pairTables, a, pairRuns[a].files)
         aloneList == StravaJsonList(pairAlone[a], a, pairRuns[a].files)
     IN pairRuns' = [pairRuns EXCEPT ![a].list = list,
                                     ![a].aloneList = aloneList,
                                     ![a].pc = IF list = <<>> THEN "delete"
                                               ELSE "upsert"]
  /\ UNCHANGED <<pairTables, pairAlone>>
  /\ PairFrame

\* upsert_to_bigquery of the run for athlete a: the load job
PairUpsert(a) ==
  /\ pairRuns[a].pc = "upsert"
  /\ \E state \in {"DONE", "RAISED"} :
       /\ pairRuns' = [pairRuns EXCEPT ![a].job = state, ![a].pc = "metrics"]
       /\ IF WriteSucceeded(state)
          THEN /\ pairTables' =
                    [pairTables EXCEPT !.bronze = @ \cup
                       DataframeRowsFor(a, "activity",
                                        PartialMetrics(pairRuns[a].list), 1)]
               /\ pairAlone' =
                    [pairAlone EXCEPT ![a].bronze = @ \cup
                       DataframeRowsFor(a, "activity",
                                        PartialMetrics(pairRuns[a].aloneList), 1)]
          ELSE UNCHANGED <<pairTables, pairAlone>>
  /\ PairFrame

\* upsert_to_bigquery of the run for athlete a: insert_metrics
PairInsertMetrics(a) ==
  /\ pairRuns[a].pc = "metrics"
  /\ LET ok == WriteSucceeded(pairRuns[a].job)
         destination == IF ok THEN SuccessDestination(ENV) ELSE FailureDestination
         status == IF ok THEN DoneStatus ELSE ExceptStatus
     IN /\ pairTables' =
             [pairTables EXCEPT !.metrics = insert_metrics(@,
                MetricsRowsFor(a, destination, "activity",
                               PartialMetrics(pairRuns[a].list), 1, status))]
        /\ pairAlone' =
             [pairAlone EXCEPT ![a].metrics = insert_metrics(@,
                MetricsRowsFor(a, destination, "activity",
                               PartialMetrics(pairRuns[a].aloneList), 1, status))]
  /\ pairRuns' = [pairRuns EXCEPT ![a].pc = "delete"]
  /\ PairFrame

\* the silver task_handler of the run for athlete a: the delete statement
PairDelete(a) ==
  /\ pairRuns[a].pc = "delete"
  /\ \E state \in {"DONE", "RAISED"} :
       IF state = "DONE"
       THEN /\ pairTables' = [pairTables EXCEPT
                                !.silver = get_delete_query(@, a)]
            /\ pairAlone' = [pairAlone EXCEPT
                               ![a].silver = get_delete_query(@, a)]
            /\ pairRuns' = [pairRuns EXCEPT ![a].pc = "insert"]
       ELSE /\ pairRuns' = [pairRuns EXCEPT ![a].pc = "done"]
            /\ UNCHANGED <<pairTables, pairAlone>>
  /\ PairFrame

\* the silver task_handler of the run for athlete a: the insert statement
PairInsert(a) ==
  /\ pairRuns[a].pc = "insert"
  /\ \E state \in {"DONE", "RAISED"} :
       IF state = "DONE"
       THEN /\ pairTables' = [pairTables EXCEPT !.silver =
                 get_insert_query(@, TemplateSelect(pairTables.bronze, a))]
            /\ pairAlone' = [pairAlone EXCEPT ![a].silver =
                 get_insert_query(@, TemplateSelect(pairAlone[a].bronze, a))]
       ELSE UNCHANGED <<pairTables, pairAlone>>
  /\ pairRuns' = [pairRuns EXCEPT ![a].pc = "done"]
  /\ PairFrame

NextPair ==
  \E a \in Athletes :
     \/ PairSelect(a)
     \/ PairUpsert(a)
     \/ PairInsertMetrics(a)
     \/ PairDelete(a)
     \/ PairInsert(a)

SpecPair == InitPair /\ [][NextPair]_vars

\* ---------------------------------------------------------------------
\* The ingest stage and the object store
\* ---------------------------------------------------------------------
\* write_json_to_storage: path.open("w") stores a new object at the path,
\* whatever the path held
write_json_to_storage(store, path, data) ==
  [store EXCEPT ![path] = [generation |-> @.generation + 1, content |-> data]]

\* get_athlete_summary: the athlete record, written at activity_id=0
get_athlete_summary(store, data) ==
  write_json_to_storage(store, <<"athlete_summary", 0>>, data)

\* get_activity_summary: the summary of activity i
get_activity_summary(store, i, data) ==
  write_json_to_storage(store, <<"activity", i>>, data)

\* get_athlete_activity_streams: the summary and each stream of activity i
get_athlete_activity_streams(store, i, data) ==
  [p \in Paths |->
     IF p \in Streams \X {i} THEN write_json_to_storage(store, p, data)[p]
     ELSE store[p]]

\* get_all_activities: the activities after the latest bronze start date,
\* up to activity `last`
RECURSIVE get_all_activities(_, _, _, _)
get_all_activities(store, latest, last, data) ==
  IF last <= latest THEN store
  ELSE get_athlete_activity_streams(
         get_all_activities(store, latest, last - 1, data), last, data)

InitIngest ==
  /\ PipeOff
  /\ BatchOff
  /\ SilverOff
  /\ SchemaOff
  /\ PoolOff
  /\ TokenOff
  /\ PairOff
  /\ IngestOff
  /\ StartupOff

IngestFrame ==
  UNCHANGED <<pipeVars, batchVars, silverVars, schemaVars, poolVars, tokenVars,
              pairVars, startupVars>>

\* Startup.ingest: StravaAPIInterface(...) then get_all_activities(); a
\* call of the provider or a write may raise after activity `last`, also
\* between the summary of the next activity and its streams (partial)
IngestRun ==
  /\ ingestRuns < MaxIngestRuns
  /\ \E data \in 1..MaxVersions, partial \in BOOLEAN :
       LET latest == LatestActivity(bronzeActivity) IN
       \E last \in latest..MaxActivity :
          /\ partial => last < MaxActivity
          /\ LET written == get_all_activities(get_athlete_summary(objects, data),
                                               latest, last, data)
             IN objects' =
                  IF partial
                  THEN get_activity_summary(written, last + 1, data)
                  ELSE written
  /\ ingestOp' = "ingest"
  /\ ingestRuns' = ingestRuns + 1
  /\ UNCHANGED bronzeActivity
  /\ IngestFrame

\* Startup.bronze_etl: the stored activity artifacts are read and their
\* rows appended to the bronze activity table
BronzeRead ==
  /\ ingestRuns < MaxIngestRuns
  /\ \E i \in ActivityIds : objects[<<"activity", i>>] # Absent
  /\ bronzeActivity' = bronzeActivity \cup
       {[data_stream |-> "activity", activity_id |-> i] :
          i \in {j \in ActivityIds : objects[<<"activity", j>>] # Absent}}
  /\ ingestOp' = "bronze"
  /\ ingestRuns' = ingestRuns + 1
  /\ UNCHANGED objects
  /\ IngestFrame

NextIngest == IngestRun \/ BronzeRead

SpecIngest == InitIngest /\ [][NextIngest]_vars

\* ---------------------------------------------------------------------
\* One Startup instance and its Firebase connection
\* ---------------------------------------------------------------------
SupportedSources == {"STRAVA"}      \* FitnessLLMDataSource
CallSources == {"STRAVA", "GARMIN"} \* values a caller passes as data_source

\* FirebaseConnect.open_connection: the debug line reads self.uid, which
\* raises AttributeError while the attribute is not assigned
open_connection(self_uid) == self_uid # Unset

\* FirebaseConnect.__init__: open_connection() runs on the new object before
\* self.uid = uid; the uid the new connection is bound to, Unset if the
\* constructor raised
FirebaseConnect(uid) ==
  LET self_uid == Unset
  IN IF open_connection(self_uid) THEN uid ELSE Unset

\* Startup._startUp: self.initialized = True comes first, self.firebase is
\* assigned only if FirebaseConnect(uid) returns
StartUp(uid) ==
  [initialized |-> TRUE,
   firebase |-> IF FirebaseConnect(uid) = Unset THEN firebase
                ELSE FirebaseConnect(uid),
   raised |-> FirebaseConnect(uid) = Unset]

\* if not self.initialized: self._startUp(uid)
EnsureStarted(uid) ==
  IF ~initialized THEN StartUp(uid)
  ELSE [initialized |-> initialized, firebase |-> firebase, raised |-> FALSE]

\* FirebaseConnect.read_user: the document of the uid the connection has;
\* self.firebase raises AttributeError while it is not assigned
read_user(inst) == inst.firebase

\* one entry point called with uid and data_source: the uid whose
\* connection-state document it read ("none": it read no document) and how
\* it ended; after the read the stage itself returns or raises
EntryCall(entry, uid, data_source, stage_raises) ==
  LET inst == EnsureStarted(uid)
      reads == /\ ~inst.raised
               /\ data_source \in SupportedSources
               /\ read_user(inst) # Unset
  IN [entry |-> entry, uid |-> uid, data_source |-> data_source,
      read |-> IF reads THEN read_user(inst) ELSE "none",
      outcome |-> IF reads /\ ~stage_raises THEN "returned" ELSE "raised"]

Call(entry) ==
  /\ Len(calls) < MaxCalls
  /\ \E uid \in Uids, data_source \in CallSources, stage_raises \in BOOLEAN :
       /\ stage_raises => (EnsureStarted(uid).firebase # Unset
                           /\ data_source \in SupportedSources)
       /\ calls' = Append(calls, EntryCall(entry, uid, data_source, stage_raises))
       /\ initialized' = EnsureStarted(uid).initialized
       /\ firebase' = EnsureStarted(uid).firebase
  /\ UNCHANGED <<pipeVars, batchVars, silverVars, schemaVars, poolVars, tokenVars,
                 pairVars, ingestVars>>

StartupIngestCall == Call("ingest")
StartupBronzeCall == Call("bronze_etl")
StartupSilverCall == Call("silver_etl")
StartupFullCall == Call("full_etl")

InitStartup ==
  /\ PipeOff
  /\ BatchOff
  /\ SilverOff
  /\ SchemaOff
  /\ PoolOff
  /\ TokenOff
  /\ PairOff
  /\ IngestOff
  /\ StartupOff

NextStartup ==
  \/ StartupIngestCall
  \/ StartupBronzeCall
  \/ StartupSilverCall
  \/ StartupFullCall

SpecStartup == InitStartup /\ [][NextStartup]_vars

\* C13: in the silver engine a template whose delete or insert fails or ends
\* in a non-DONE state is skipped and every remaining template is still
\* executed: with every template body a SELECT, the run returns normally,
\* the delete of every template has been issued, and no insert was issued
\* for a template whose delete did not end DONE.
C13_TemplateIsolation ==
  (/\ silverPc = "done"
   /\ \A n \in DOMAIN list_of_queries : FindSelect(list_of_queries[n])) =>
     /\ silverResult = "returned"
     /\ \A n \in DOMAIN list_of_queries :
          \E e \in executed : e.template = n /\ e.step = "delete"
     /\ \A e \in executed :
          (e.step = "delete" /\ e.outcome # "DONE") =>
             ~\E f \in executed : f.template = e.template /\ f.step = "insert"

\* C14: the single-SELECT check is enforced before execution: no warehouse
\* statement, delete or insert, is ever issued for a template whose body
\* does not pass the check.
C14_CheckBeforeExecution ==
  \A e \in executed : FindSelect(list_of_queries[e.template])

\* the athlete's rows of a target table
AthleteRows(table) == {r \in table : r.athlete_id = AthleteId}

\* C15: with bronze unchanged and every job succeeding, a second silver run
\* right after a first leaves every target table with the same rows for
\* the athlete as the first run left.
C15_SilverIdempotent ==
  (/\ silverPc = "done" /\ silverResult = "returned" /\ silverClean
   /\ silverSnap.valid) =>
     \A n \in DOMAIN list_of_queries :
        AthleteRows(silverTables[n]) = AthleteRows(silverSnap.tables[n])

C15_Witness ==
  /\ silverPc = "done" /\ silverResult = "returned" /\ silverClean
  /\ silverSnap.valid
  /\ Len(list_of_queries) = MaxTemplates
  /\ \A n \in DOMAIN list_of_queries :
       /\ AthleteRows(silverTables[n]) # {}
       /\ \E r \in silverTables[n] : r.athlete_id = OtherAthlete
       /\ AthleteRows(silverTables[n]) = AthleteRows(silverSnap.tables[n])

\* C16: metrics rows are never updated or deleted: every step leaves every
\* existing metrics row in place, and a metrics write adds one new row for
\* each file of the load job, beside the rows already there (an earlier
\* FAILURE row of the same activity included).
C16_MetricsAppendOnly ==
  [][/\ metrics \subseteq metrics'
     /\ metrics' # metrics =>
          /\ pc \in {"metricsSuccess", "metricsFailure"}
          /\ Cardinality(metrics') = Cardinality(metrics) + Len(loaded)]_vars

\* a FAILURE row of an activity is still there after a later attempt on the
\* same activity has written its own row
C16_Witness ==
  \E m \in metrics : \E n \in metrics :
     /\ m.status = "FAILURE"
     /\ n.table = m.table
     /\ n.data_stream = m.data_stream /\ n.activity_id = m.activity_id
     /\ n.bq_insert_timestamp > m.bq_insert_timestamp

\* C17: for every ENV the table the selector reads, the table SUCCESS rows
\* are written to and the table FAILURE rows are written to are the one
\* {env}_metrics.metrics table: every metrics row ever written is in the
\* table the selector of the run's environment reads, and that table is
\* {env}_metrics.metrics.
C17_OneMetricsTable ==
  \A m \in metrics :
     /\ m.table = SelectorTable(ENV)
     /\ m.table = <<ENV, "metrics", "metrics">>

\* C18: get_schema_path is a total function of (data source, stream type):
\* every call returns a path that depends on its arguments only; ACTIVITY,
\* ATHLETE_SUMMARY and LATLNG resolve to the schema named after the stream,
\* every other Strava stream resolves to generic_stream, and (None, None)
\* resolves to the metrics schema.
C18_SchemaResolution ==
  \A k \in DOMAIN schemaCalls :
     LET c == schemaCalls[k] IN
       /\ SchemaName(c.path) \in
            {"activity", "athlete_summary", "latlng", "generic_stream",
             "metrics"}
       /\ \A j \in DOMAIN schemaCalls :
            (/\ schemaCalls[j].data_source = c.data_source
             /\ schemaCalls[j].data_stream = c.data_stream)
               => schemaCalls[j].path = c.path
       /\ (c.data_source = "STRAVA" /\ c.data_stream = "ACTIVITY")
            => SchemaName(c.path) = "activity"
       /\ (c.data_source = "STRAVA" /\ c.data_stream = "ATHLETE_SUMMARY")
            => SchemaName(c.path) = "athlete_summary"
       /\ (c.data_source = "STRAVA" /\ c.data_stream = "LATLNG")
            => SchemaName(c.path) = "latlng"
       /\ (/\ c.data_source = "STRAVA"
           /\ c.data_stream \notin {None, "ACTIVITY", "ATHLETE_SUMMARY",
                                     "LATLNG"})
            => SchemaName(c.path) = "generic_stream"
       /\ (c.data_source = None /\ c.data_stream = None)
            => SchemaName(c.path) = "metrics"

\* a generic stream and a stream with its own schema have both been resolved
C18_Witness ==
  /\ \E k \in DOMAIN schemaCalls :
       /\ schemaCalls[k].data_stream = "HEARTRATE"
       /\ SchemaName(schemaCalls[k].path) = "generic_stream"
  /\ \E k \in DOMAIN schemaCalls :
       /\ schemaCalls[k].data_stream = "LATLNG"
       /\ SchemaName(schemaCalls[k].path) = "latlng"

\* C19: for one candidate list, the pool of N > 1 workers and the
\* sequential loop give the same collection of results under every
\* interleaving of the workers: whatever WORKER is, the conversion ends
\* with what the sequential loop gives for the list, which is one result
\* for each candidate file, in the order of the list, when no load raises.
C19_PoolEqualsSequential ==
  poolPc = "done" =>
    /\ poolResult = Sequential(Candidates)
    /\ ~poolResult.raised =>
         /\ Len(poolResult.list) = Len(Candidates)
         /\ \A k \in DOMAIN poolResult.list :
              /\ poolResult.list[k].state = "loaded"
              /\ poolResult.list[k].activity_id = Candidates[k]

\* a pool whose loads ended in another order than the order of the list
C19_Witness ==
  /\ poolPc = "done"
  /\ UsePool(WORKER)
  /\ ~poolResult.raised
  /\ Len(finished) > 1
  /\ finished[1] > finished[2]

\* C20: repeated bronze runs converge once writes succeed: a bronze run
\* over all streams in which every warehouse write and every metrics write
\* succeeded has ended with a SUCCESS metrics row for every well-formed
\* artifact stored for the athlete when it started (so that repeating runs
\* until one meets no write failure gives every artifact its SUCCESS row).
C20_RetryConverges ==
  (/\ run.started /\ run.ended
   /\ run.allow = {}
   /\ run.error \notin {"KeyError", "MetricsError"}
   /\ \A j \in run.jobs : j.state = "DONE"
   /\ \A m \in metrics :
        m.bq_insert_timestamp \in run.stamps => m.status = "SUCCESS") =>
     \A s \in Streams : \A i \in ActivityIds :
        (run.store[s][i].present /\ run.store[s][i].ok) =>
           \E m \in metrics : /\ m.athlete_id = AthleteId
                               /\ m.data_stream = s
                               /\ m.activity_id = i
                               /\ m.status = "SUCCESS"

\* the request handled by this step is one whose ID token is missing,
\* empty, rejected by verify_id_token or without uid
VerificationFails(req) ==
  req.auth \in {"noBearer", "emptyBearer", "rejected", "noUid"}

\* the request handled by this step is a verified request for an existing
\* user whose strava stream document holds a refresh token
Refreshable(req, user_docs, docs) ==
  /\ req.data_source = "strava"
  /\ req.auth = "verified"
  /\ req.uid \in user_docs
  /\ docs[req.uid].exists
  /\ docs[req.uid].refreshToken # NoToken

\* C21 as stated: token_refresh answers a non-OPTIONS request without
\* data_source with 400, one whose ID-token verification fails with 401,
\* both without invoking the provider refresh and without changing stored
\* tokens, and a verified request for an existing user whose strava stream
\* document holds a refresh token with 200.
C21_ResponseCodes ==
  [][(tokenOp' = "token_refresh" /\ request'.method # "OPTIONS") =>
       /\ request'.data_source = "" =>
            (response' = 400 /\ ~refreshCalled' /\ streamDocs' = streamDocs)
       /\ (request'.data_source # "" /\ VerificationFails(request')) =>
            (response' = 401 /\ ~refreshCalled' /\ streamDocs' = streamDocs)
       /\ Refreshable(request', usersColl, streamDocs) => response' = 200]_vars

\* C21 amended: as above, but the verified request for a user with a
\* refresh token invokes the provider refresh and is answered with 200 and
\* the stored tokens replaced when the refresh succeeds, and with 500 and
\* the stored tokens unchanged when the refresh raises.
C21_ResponseCodesRefreshOutcome ==
  [][(tokenOp' = "token_refresh" /\ request'.method # "OPTIONS") =>
       /\ request'.data_source = "" =>
            (response' = 400 /\ ~refreshCalled' /\ streamDocs' = streamDocs)
       /\ (request'.data_source # "" /\ VerificationFails(request')) =>
            (response' = 401 /\ ~refreshCalled' /\ streamDocs' = streamDocs)
       /\ Refreshable(request', usersColl, streamDocs) =>
            /\ refreshCalled'
            /\ \/ /\ response' = 200
                  /\ streamDocs'[request'.uid].refreshToken #
                       streamDocs[request'.uid].refreshToken
               \/ /\ response' = 500
                  /\ streamDocs' = streamDocs]_vars

\* the second request of a behaviour answered with 200, its tokens stored
C21_Witness ==
  /\ tokenOp = "token_refresh"
  /\ response = 200
  /\ refreshCalled
  /\ tokenSteps > 1
  /\ streamDocs[request.uid].lastTokenRefresh = tokenSteps

\* C22: strava_update_user_tokens on an existing strava stream document
\* sets accessToken, refreshToken, expiresAt and lastTokenRefresh to the
\* new values and leaves every other field of the document and every
\* other user's documents unchanged; a document that does not exist is
\* created holding the new tokens.
C22_UpdateTouchesTokensOnly ==
  [][tokenOp' = "strava_update_user_tokens" =>
       LET u == request'.uid
           new == DirectTokens(tokenSteps') IN
       /\ streamDocs'[u].exists
       /\ streamDocs'[u].accessToken = new.accessToken
       /\ streamDocs'[u].refreshToken = new.refreshToken
       /\ streamDocs'[u].expiresAt = new.expiresAt
       /\ streamDocs'[u].lastTokenRefresh = new.lastTokenRefresh
       /\ streamDocs[u].exists => streamDocs'[u].athlete = streamDocs[u].athlete
       /\ \A v \in Uids \ {u} : streamDocs'[v] = streamDocs[v]
       /\ usersColl' = usersColl]_vars

\* an existing document with an athlete field has been given new tokens,
\* beside the document of another user
C22_Witness ==
  /\ tokenOp = "strava_update_user_tokens"
  /\ streamDocs[request.uid].athlete = 42
  /\ streamDocs[request.uid].accessToken = DirectTokens(tokenSteps).accessToken
  /\ \E v \in Uids \ {request.uid} : streamDocs[v].exists

\* the activity ids of the stream that have a SUCCESS metrics row
Processed(s) ==
  {m.activity_id : m \in {r \in metrics : /\ r.athlete_id = AthleteId
                                          /\ r.data_stream = s
                                          /\ r.status = "SUCCESS"}}

\* the first n listed artifacts of the stream, n the sampling limit
FirstListed(s, n) ==
  LET list == ListDir(storage, s) IN
  {list[k] : k \in {j \in DOMAIN list : j <= n}}

\* C23: with a sampling limit n the listing is cut to its first n
\* artifacts and then filtered against the processed set: the run loads
\* exactly the artifacts among the first n listed that have no SUCCESS
\* metrics row, and never more than n.
C23_SampleThenFilter ==
  (poolPc = "done" /\ SAMPLE # NoSample /\ ~poolResult.raised) =>
     /\ {poolResult.list[k].activity_id : k \in DOMAIN poolResult.list}
          = FirstListed(poolStream, SAMPLE) \ Processed(poolStream)
     /\ Len(poolResult.list) <= SAMPLE

\* C24: when no worker count is configured the candidate files are loaded
\* sequentially by one worker; files are handed to the workers of a pool
\* only when the configured worker count is greater than one.
C24_DefaultIsSequential ==
  /\ dispatched > 0 => (WORKER # NoWorker /\ WORKER > 1)
  /\ WORKER = NoWorker => \A w \in DOMAIN running : running[w] = 0

\* C25: when no candidate artifact remains for a stream after filtering,
\* the engine appends no bronze row and no metrics row for it, raises no
\* error, and goes on with the next stream (or returns after the last).
C25_EmptyStreamSkipped ==
  [][(/\ pc = "convert"
      /\ FilteredList(storage, metrics, ENV, Head(streamsLeft), SAMPLE) = <<>>)
       => /\ bronze' = bronze
          /\ metrics' = metrics
          /\ result' # "raised"
          /\ streamsLeft' = Tail(streamsLeft)
          /\ pc' = IF Tail(streamsLeft) # <<>> THEN "convert"
                   ELSE IF call = "full_etl" THEN "silver" ELSE "done"]_vars

\* a bronze run that found no candidate in either of the two stored
\* streams has returned
C25_Witness ==
  /\ run.started /\ run.ended
  /\ run.error = "none"
  /\ run.visited = Streams
  /\ run.attempted = {}
  /\ \A s \in Streams : ListDir(run.store, s) # <<>>
  /\ result # "raised"

\* the rows of a target table that belong to other athletes
OtherRows(table) == {r \in table : r.athlete_id # AthleteId}

\* C26: a silver run for an athlete deletes only that athlete's rows: a
\* delete step, whatever its outcome, leaves the rows of every other
\* athlete in every silver target table as they were.
C26_DeleteOnlyOwnRows ==
  [][silverPc = "delete" =>
       \A n \in DOMAIN silverTables :
          OtherRows(silverTables'[n]) = OtherRows(silverTables[n])]_vars

\* the delete of a template has removed the athlete's rows from a table
\* that also holds rows of another athlete
C26_Witness ==
  /\ silverPc = "insert"
  /\ silverRuns = 2
  /\ silverSnap.valid
  /\ AthleteRows(silverSnap.tables[templateIndex]) # {}
  /\ AthleteRows(silverTables[templateIndex]) = {}
  /\ OtherRows(silverTables[templateIndex]) # {}

\* C27: when the runs of two athletes are interleaved, the bronze, metrics
\* and silver rows of each athlete are at every moment the rows its own run
\* leaves when it executes alone on the same warehouse: no step of one run
\* depends on, or changes, the rows of the other athlete.
C27_RunsDoNotInterfere ==
  pairRuns # <<>> =>
    \A a \in Athletes :
       /\ OwnRows(pairTables, a) = OwnRows(pairAlone[a], a)
       /\ pairRuns[a].list = pairRuns[a].aloneList

\* one athlete's run is between its delete and its insert while the other
\* athlete's run has loaded its bronze rows and not yet written its metrics
C27_Witness ==
  /\ pairRuns # <<>>
  /\ pairRuns[AthleteId].pc = "insert"
  /\ pairRuns[AthleteId].job = "DONE"
  /\ pairRuns[OtherAthlete].pc = "metrics"
  /\ pairRuns[OtherAthlete].job = "DONE"
  /\ OwnRows(pairTables, AthleteId).bronze # {}
  /\ OwnRows(pairTables, OtherAthlete).bronze # {}
  /\ OwnRows(pairTables, OtherAthlete).silver # {}

\* C28: a raw artifact is immutable once written by the ingest stage: no
\* later step, of an ingest run or of the bronze engine, replaces, modifies
\* or deletes the object stored at an existing path.
C28_ArtifactImmutable ==
  [][\A p \in Paths : objects[p] # Absent => objects'[p] = objects[p]]_vars

\* C29: every call of ingest, bronze_etl, silver_etl or full_etl made on
\* one Startup instance for a supported data source reads the
\* connection-state document of the uid passed to that call.
C29_CallReadsOwnDocument ==
  \A k \in DOMAIN calls :
     calls[k].data_source \in SupportedSources => calls[k].read = calls[k].uid

\* the sum of record_count over a set of metrics rows
RECURSIVE SumRecordCount(_)
SumRecordCount(rows) ==
  IF rows = {} THEN 0
  ELSE LET m == CHOOSE x \in rows : TRUE
       IN m.record_count + SumRecordCount(rows \ {m})

\* the metrics rows persisted for load job j
MetricsOf(j) ==
  {m \in metrics : m.data_stream = j.stream /\ m.bq_insert_timestamp = j.ts}

\* the bronze rows load job j appended
BronzeOf(j) == {b \in bronze : b.data_stream = j.stream /\ b.ts = j.ts}

====
